---- MODULE Spec2Model ----
(***************************************************************************)
(* Quote service: the route handlers of src/src/routes.js, the Prometheus  *)
(* counters they own, and the quote store (db) and moderation filter       *)
(* (profanityFilter) they call.  A request runs as the event loop runs it: *)
(* the synchronous prefix of its handler up to the first await, the        *)
(* awaited store operation, the continuation after the await, and the      *)
(* response's 'finish' event, each an atomic step that other requests'     *)
(* steps may interleave with.                                              *)
(***************************************************************************)
EXTENDS Integers, Sequences, FiniteSets, Bags, TLC

VARIABLES
  quotes,                    \* the store's table: live id -> row
  nextId,                    \* the id the store assigns to the next row
  quotesServedCounter,       \* quotes_served_total
  quotesAddedCounter,        \* quotes_added_total
  profanityBlockedCounter,   \* profanity_blocked_total
  httpRequestsCounter,       \* http_requests_total: bag of <<method, route, status>>
  requestDurationHistogram,  \* http_request_duration_seconds: bag of <<method, route>> samples
  req,                       \* the requests of this process lifetime
  seeded,                    \* the number of rows the store was seeded with at startup
  moments                    \* per statistics request: the (totalQuotes, totalViews,
                             \* quotesAdded, profanityBlocked) values that held while it was in flight

vars == <<quotes, nextId, quotesServedCounter, quotesAddedCounter, profanityBlockedCounter,
          httpRequestsCounter, requestDurationHistogram, req, seeded, moments>>

(***************************************************************************)
(* Bounds of the model and constants of the program                        *)
(***************************************************************************)
MaxReq == 2
MaxSeed == 1
MaxFaults == 1
MaxTextLen == 1000
MaxAuthorLen == 100

Reqs == 1..MaxReq

(***************************************************************************)
(* JSON values of a request body.  A string is kept as its length, the     *)
(* length of its trim() and whether it holds a disallowed word; a number   *)
(* or boolean as its value v.                                              *)
(***************************************************************************)
Undefined == [t |-> "undefined", v |-> 0, len |-> 0, trimmed |-> 0, bad |-> FALSE]
Null == [t |-> "object", v |-> 0, len |-> 0, trimmed |-> 0, bad |-> FALSE]
False == [t |-> "boolean", v |-> 0, len |-> 0, trimmed |-> 0, bad |-> FALSE]
Num(n) == [t |-> "number", v |-> n, len |-> 0, trimmed |-> 0, bad |-> FALSE]
Obj == [t |-> "object", v |-> 1, len |-> 0, trimmed |-> 0, bad |-> FALSE]
Str(l, tr, b) == [t |-> "string", v |-> 0, len |-> l, trimmed |-> tr, bad |-> b]

\* typeof x
TypeOf(x) == x.t

\* !x is false
Truthy(x) ==
  CASE x.t = "undefined" -> FALSE
    [] x.t = "object" -> x.v # 0
    [] x.t = "boolean" -> x.v # 0
    [] x.t = "number" -> x.v # 0
    [] x.t = "string" -> x.len > 0

\* s.trim()
Trim(s) == [s EXCEPT !.len = s.trimmed]

StrLens == {0, 1, 2, MaxAuthorLen, MaxAuthorLen + 1, MaxTextLen, MaxTextLen + 1}

StringsOfLen(l) ==
  {Str(l, tr, b) : tr \in {n \in {l, l - 1, 0} : n >= 0}, b \in BOOLEAN}

Strings == {s \in UNION {StringsOfLen(l) : l \in StrLens} : s.bad => s.trimmed >= 1}

Values == {Undefined, Null, False, Num(0), Num(5), Obj} \cup Strings

\* req.body, an object; either field may be missing or hold any JSON value
AllBodies == [text : Values, author : Values]

\* the bodies used where requests run concurrently: a valid one that needs
\* trimming, a profane one, one without author, one too long and profane
Bodies ==
  { [text |-> Str(2, 1, FALSE), author |-> Str(1, 1, FALSE)],
    [text |-> Str(2, 2, TRUE), author |-> Str(1, 1, FALSE)],
    [text |-> Str(1, 1, FALSE), author |-> Undefined],
    [text |-> Str(MaxTextLen + 1, MaxTextLen + 1, TRUE), author |-> Str(1, 1, FALSE)] }

(***************************************************************************)
(* The :id parameter of DELETE /quote/:id, a sequence of characters        *)
(***************************************************************************)
Digits == <<"0", "1", "2", "3", "4", "5", "6", "7", "8", "9">>
IsDigit(c) == \E i \in 1..10 : Digits[i] = c
DigitVal(c) == (CHOOSE i \in 1..10 : Digits[i] = c) - 1

RECURSIVE DigitsValue(_, _)
\* the value of the longest prefix of digits of s, after acc
DigitsValue(s, acc) ==
  IF s = <<>> \/ ~IsDigit(Head(s)) THEN acc
  ELSE DigitsValue(Tail(s), acc * 10 + DigitVal(Head(s)))

RECURSIVE SkipSpaces(_)
SkipSpaces(s) == IF s # <<>> /\ Head(s) = " " THEN SkipSpaces(Tail(s)) ELSE s

\* Number.parseInt(s, 10): [nan, n]
ParseInt(s) ==
  LET t == SkipSpaces(s)
      neg == t # <<>> /\ Head(t) = "-"
      u == IF t # <<>> /\ Head(t) \in {"-", "+"} THEN Tail(t) ELSE t
  IN IF u = <<>> \/ ~IsDigit(Head(u)) THEN [nan |-> TRUE, n |-> 0]
     ELSE [nan |-> FALSE, n |-> IF neg THEN 0 - DigitsValue(u, 0) ELSE DigitsValue(u, 0)]

IdParams == { <<"1">>, <<"2">>, <<"a">> }

(***************************************************************************)
(* Requests                                                                *)
(***************************************************************************)
NoQuote == [id |-> 0, text |-> Undefined, author |-> Undefined, views |-> 0, createdAt |-> 0]
NoBody == [text |-> Undefined, author |-> Undefined]
NoRet == [tag |-> "pending", val |-> NoQuote]
NoResp == [status |-> 0, success |-> FALSE, error |-> "", message |-> "", data |-> NoQuote]

IdleReq ==
  [kind |-> "none", pc |-> "idle", method |-> "", route |-> [path |-> "", id |-> <<>>],
   body |-> NoBody, args |-> NoBody, id |-> 0, ret |-> NoRet, resp |-> NoResp, calls |-> {}]


\* requests arrive in the order of their numbers
Arrives(r) == req[r].pc = "idle" /\ (IF r = 1 THEN TRUE ELSE req[r - 1].pc # "idle")

Route(path) == [path |-> path, id |-> <<>>]

\* router.use: the route label and the timer's labels are fixed when the request arrives
Observed(r, kind, method, route) ==
  [req[r] EXCEPT !.kind = kind, !.method = method, !.route = route]

Json(status, success, error, message, data) ==
  [status |-> status, success |-> success, error |-> error, message |-> message, data |-> data]

ValidationError(message) == Json(400, FALSE, "Validation error", message, NoQuote)

QuoteData(q) == [id |-> q.id, text |-> q.text, author |-> q.author, views |-> q.views]

(***************************************************************************)
(* The moderation filter and the store                                     *)
(***************************************************************************)
\* profanityFilter.validateQuote(text, author)
ValidateQuote(text, author) ==
  IF text.bad \/ author.bad
  THEN [isValid |-> FALSE, message |-> "Quote contains inappropriate language"]
  ELSE [isValid |-> TRUE, message |-> ""]

LiveIds == DOMAIN quotes

RECURSIVE SumViews(_, _)
SumViews(q, S) ==
  IF S = {} THEN 0
  ELSE LET i == CHOOSE j \in S : TRUE IN q[i].views + SumViews(q, S \ {i})

\* db.getStats()
Stats(q) == [totalQuotes |-> Cardinality(DOMAIN q), totalViews |-> SumViews(q, DOMAIN q)]

RECURSIVE OrderByCreatedAt(_, _)
\* the rows of S, ORDER BY created_at ASC
OrderByCreatedAt(q, S) ==
  IF S = {} THEN <<>>
  ELSE LET i == CHOOSE j \in S : \A k \in S : q[j].createdAt <= q[k].createdAt
       IN <<q[i]>> \o OrderByCreatedAt(q, S \ {i})

Faults == Cardinality({r \in Reqs : req[r].ret.tag = "error"})

Returned(r, tag, val) == req' = [req EXCEPT ![r].ret = [tag |-> tag, val |-> val], ![r].pc = "resume"]

Awaiting(r, kind) == req[r].kind = kind /\ req[r].pc = "await"

\* db.addQuote(text, author) with the id taken as the highest live id plus one
DbAddQuoteReuseMax(r) ==
  /\ Awaiting(r, "PostQuote")
  /\ LET top == IF LiveIds = {} THEN 0 ELSE CHOOSE i \in LiveIds : \A j \in LiveIds : j <= i
         row == [id |-> top + 1, text |-> req[r].args.text, author |-> req[r].args.author,
                 views |-> 0, createdAt |-> nextId]
     IN /\ quotes' = [i \in LiveIds \cup {row.id} |-> IF i = row.id THEN row ELSE quotes[i]]
        /\ nextId' = nextId + 1
        /\ Returned(r, "quote", row)
  /\ UNCHANGED <<quotesServedCounter, quotesAddedCounter, profanityBlockedCounter,
                 httpRequestsCounter, requestDurationHistogram>>

\* db.addQuote(text, author): a new row with a fresh id, views 0 and the creation time
DbAddQuote(r) ==
  /\ Awaiting(r, "PostQuote")
  /\ LET row == [id |-> nextId, text |-> req[r].args.text, author |-> req[r].args.author,
                 views |-> 0, createdAt |-> nextId]
     IN /\ quotes' = [i \in LiveIds \cup {nextId} |-> IF i = nextId THEN row ELSE quotes[i]]
        /\ nextId' = nextId + 1
        /\ Returned(r, "quote", row)
  /\ UNCHANGED <<quotesServedCounter, quotesAddedCounter, profanityBlockedCounter,
                 httpRequestsCounter, requestDurationHistogram>>

\* db.getRandomQuote() as a SELECT of a live row followed, in a second store
\* operation, by an UPDATE that writes the views read plus one
DbGetRandomQuoteTwoSteps(r) ==
  /\ Awaiting(r, "GetQuote")
  /\ IF req[r].ret.tag = "pending"
     THEN /\ IF LiveIds = {}
             THEN Returned(r, "null", NoQuote)
             ELSE \E i \in LiveIds :
                    req' = [req EXCEPT ![r].ret = [tag |-> "selected", val |-> quotes[i]]]
          /\ UNCHANGED quotes
     ELSE LET row == [req[r].ret.val EXCEPT !.views = @ + 1]
          IN /\ quotes' = [i \in LiveIds |-> IF i = row.id THEN row ELSE quotes[i]]
             /\ Returned(r, "quote", row)
  /\ UNCHANGED <<nextId, quotesServedCounter, quotesAddedCounter, profanityBlockedCounter,
                 httpRequestsCounter, requestDurationHistogram>>

\* db.getRandomQuote() returning the row as it was selected, before the
\* increment of its views
DbGetRandomQuoteStaleRow(r) ==
  /\ Awaiting(r, "GetQuote")
  /\ IF LiveIds = {}
     THEN /\ Returned(r, "null", NoQuote)
          /\ UNCHANGED quotes
     ELSE \E i \in LiveIds :
            /\ quotes' = [quotes EXCEPT ![i].views = @ + 1]
            /\ Returned(r, "quote", quotes[i])
  /\ UNCHANGED <<nextId, quotesServedCounter, quotesAddedCounter, profanityBlockedCounter,
                 httpRequestsCounter, requestDurationHistogram>>

\* db.getRandomQuote(): none on an empty store, else one live row, its views
\* incremented in the same store operation
DbGetRandomQuote(r) ==
  /\ Awaiting(r, "GetQuote")
  /\ IF LiveIds = {}
     THEN /\ Returned(r, "null", NoQuote)
          /\ UNCHANGED quotes
     ELSE \E i \in LiveIds :
            LET row == [quotes[i] EXCEPT !.views = @ + 1]
            IN /\ quotes' = [quotes EXCEPT ![i] = row]
               /\ Returned(r, "quote", row)
  /\ UNCHANGED <<nextId, quotesServedCounter, quotesAddedCounter, profanityBlockedCounter,
                 httpRequestsCounter, requestDurationHistogram>>

\* db.getAllQuotes() counting a view for every quote it lists
DbGetAllQuotesCountsViews(r) ==
  /\ Awaiting(r, "GetQuotes")
  /\ quotes' = [i \in LiveIds |-> [quotes[i] EXCEPT !.views = @ + 1]]
  /\ Returned(r, "list", OrderByCreatedAt(quotes', LiveIds))
  /\ UNCHANGED <<nextId, quotesServedCounter, quotesAddedCounter,
                 profanityBlockedCounter, httpRequestsCounter, requestDurationHistogram>>

\* db.getAllQuotes()
DbGetAllQuotes(r) ==
  /\ Awaiting(r, "GetQuotes")
  /\ Returned(r, "list", OrderByCreatedAt(quotes, LiveIds))
  /\ UNCHANGED <<quotes, nextId, quotesServedCounter, quotesAddedCounter,
                 profanityBlockedCounter, httpRequestsCounter, requestDurationHistogram>>

\* db.getStats()
DbGetStats(r) ==
  /\ Awaiting(r, "GetStats")
  /\ Returned(r, "stats", Stats(quotes))
  /\ UNCHANGED <<quotes, nextId, quotesServedCounter, quotesAddedCounter,
                 profanityBlockedCounter, httpRequestsCounter, requestDurationHistogram>>

\* db.deleteQuote(id): whether a row was removed
DbDeleteQuote(r) ==
  /\ Awaiting(r, "DeleteQuote")
  /\ quotes' = [i \in LiveIds \ {req[r].id} |-> quotes[i]]
  /\ Returned(r, "removed", req[r].id \in LiveIds)
  /\ UNCHANGED <<nextId, quotesServedCounter, quotesAddedCounter, profanityBlockedCounter,
                 httpRequestsCounter, requestDurationHistogram>>

\* a storage fault: the awaited store call rejects and the store is unchanged
DbFault(r) ==
  /\ req[r].pc = "await"
  /\ req[r].kind # "GetMetrics"
  /\ Faults < MaxFaults
  /\ Returned(r, "error", NoQuote)
  /\ UNCHANGED <<quotes, nextId, quotesServedCounter, quotesAddedCounter,
                 profanityBlockedCounter, httpRequestsCounter, requestDurationHistogram>>

\* register.metrics(): the rendered values of the registry
RegisterMetrics(r) ==
  /\ Awaiting(r, "GetMetrics")
  /\ Returned(r, "text", [quotes_served_total |-> quotesServedCounter,
                          quotes_added_total |-> quotesAddedCounter,
                          profanity_blocked_total |-> profanityBlockedCounter,
                          http_requests_total |-> httpRequestsCounter,
                          http_request_duration_seconds |-> requestDurationHistogram])
  /\ UNCHANGED <<quotes, nextId, quotesServedCounter, quotesAddedCounter,
                 profanityBlockedCounter, httpRequestsCounter, requestDurationHistogram>>

(***************************************************************************)
(* The handlers                                                            *)
(***************************************************************************)
Sent(r, resp) == req' = [req EXCEPT ![r].resp = resp, ![r].pc = "sent"]

Resuming(r, kind) == req[r].kind = kind /\ req[r].pc = "resume"

StoreFault(error) == Json(500, FALSE, error, "store fault", NoQuote)

\* GET /quote up to the await of db.getRandomQuote()
GetQuote(r) ==
  /\ Arrives(r)
  /\ req' = [req EXCEPT ![r] = [Observed(r, "GetQuote", "GET", Route("/quote")) EXCEPT
                                  !.pc = "await", !.calls = {"db.getRandomQuote"}]]
  /\ UNCHANGED <<quotes, nextId, quotesServedCounter, quotesAddedCounter,
                 profanityBlockedCounter, httpRequestsCounter, requestDurationHistogram>>

\* GET /quote after the await, with quotes_served_total incremented before the
\* check of the store's answer
GetQuoteResumeCountFirst(r) ==
  /\ Resuming(r, "GetQuote")
  /\ IF req[r].ret.tag = "error"
     THEN /\ Sent(r, StoreFault("Failed to fetch quote"))
          /\ UNCHANGED quotesServedCounter
     ELSE /\ quotesServedCounter' = quotesServedCounter + 1
          /\ IF req[r].ret.tag = "null"
             THEN Sent(r, Json(404, FALSE, "No quotes found in database", "", NoQuote))
             ELSE Sent(r, Json(200, TRUE, "", "", QuoteData(req[r].ret.val)))
  /\ UNCHANGED <<quotes, nextId, quotesAddedCounter, profanityBlockedCounter,
                 httpRequestsCounter, requestDurationHistogram>>

\* GET /quote after the await, with quotes_served_total incremented on the
\* store-fault path too
GetQuoteResumeCountFaults(r) ==
  /\ Resuming(r, "GetQuote")
  /\ IF req[r].ret.tag = "error"
     THEN /\ Sent(r, StoreFault("Failed to fetch quote"))
          /\ quotesServedCounter' = quotesServedCounter + 1
     ELSE IF req[r].ret.tag = "null"
     THEN /\ Sent(r, Json(404, FALSE, "No quotes found in database", "", NoQuote))
          /\ UNCHANGED quotesServedCounter
     ELSE /\ quotesServedCounter' = quotesServedCounter + 1
          /\ Sent(r, Json(200, TRUE, "", "", QuoteData(req[r].ret.val)))
  /\ UNCHANGED <<quotes, nextId, quotesAddedCounter, profanityBlockedCounter,
                 httpRequestsCounter, requestDurationHistogram>>

\* GET /quote after the await
GetQuoteResume(r) ==
  /\ Resuming(r, "GetQuote")
  /\ IF req[r].ret.tag = "error"
     THEN /\ Sent(r, StoreFault("Failed to fetch quote"))
          /\ UNCHANGED quotesServedCounter
     ELSE IF req[r].ret.tag = "null"
     THEN /\ Sent(r, Json(404, FALSE, "No quotes found in database", "", NoQuote))
          /\ UNCHANGED quotesServedCounter
     ELSE /\ quotesServedCounter' = quotesServedCounter + 1
          /\ Sent(r, Json(200, TRUE, "", "", QuoteData(req[r].ret.val)))
  /\ UNCHANGED <<quotes, nextId, quotesAddedCounter, profanityBlockedCounter,
                 httpRequestsCounter, requestDurationHistogram>>

\* POST /quote with the author's length checked before the text's
PostQuoteSyncAuthorFirst(text, author) ==
  IF ~Truthy(text) \/ ~Truthy(author)
  THEN [proceed |-> FALSE, blocked |-> FALSE, calls |-> {},
        resp |-> ValidationError("Both \"text\" and \"author\" fields are required")]
  ELSE IF TypeOf(text) # "string" \/ TypeOf(author) # "string"
  THEN [proceed |-> FALSE, blocked |-> FALSE, calls |-> {},
        resp |-> ValidationError("Both \"text\" and \"author\" must be strings")]
  ELSE IF Trim(text).len = 0 \/ Trim(author).len = 0
  THEN [proceed |-> FALSE, blocked |-> FALSE, calls |-> {},
        resp |-> ValidationError("Both \"text\" and \"author\" cannot be empty")]
  ELSE IF author.len > MaxAuthorLen
  THEN [proceed |-> FALSE, blocked |-> FALSE, calls |-> {},
        resp |-> ValidationError("Author name cannot exceed 100 characters")]
  ELSE IF text.len > MaxTextLen
  THEN [proceed |-> FALSE, blocked |-> FALSE, calls |-> {},
        resp |-> ValidationError("Quote text cannot exceed 1000 characters")]
  ELSE IF ~ValidateQuote(text, author).isValid
  THEN [proceed |-> FALSE, blocked |-> TRUE, calls |-> {"profanityFilter.validateQuote"},
        resp |-> Json(400, FALSE, "Profanity detected", ValidateQuote(text, author).message,
                      NoQuote)]
  ELSE [proceed |-> TRUE, blocked |-> FALSE,
        calls |-> {"profanityFilter.validateQuote", "db.addQuote"}, resp |-> NoResp]

\* POST /quote with the moderation filter run before the two length checks
PostQuoteSyncFilterFirst(text, author) ==
  IF ~Truthy(text) \/ ~Truthy(author)
  THEN [proceed |-> FALSE, blocked |-> FALSE, calls |-> {},
        resp |-> ValidationError("Both \"text\" and \"author\" fields are required")]
  ELSE IF TypeOf(text) # "string" \/ TypeOf(author) # "string"
  THEN [proceed |-> FALSE, blocked |-> FALSE, calls |-> {},
        resp |-> ValidationError("Both \"text\" and \"author\" must be strings")]
  ELSE IF Trim(text).len = 0 \/ Trim(author).len = 0
  THEN [proceed |-> FALSE, blocked |-> FALSE, calls |-> {},
        resp |-> ValidationError("Both \"text\" and \"author\" cannot be empty")]
  ELSE IF ~ValidateQuote(text, author).isValid
  THEN [proceed |-> FALSE, blocked |-> TRUE, calls |-> {"profanityFilter.validateQuote"},
        resp |-> Json(400, FALSE, "Profanity detected", ValidateQuote(text, author).message,
                      NoQuote)]
  ELSE IF text.len > MaxTextLen
  THEN [proceed |-> FALSE, blocked |-> FALSE, calls |-> {"profanityFilter.validateQuote"},
        resp |-> ValidationError("Quote text cannot exceed 1000 characters")]
  ELSE IF author.len > MaxAuthorLen
  THEN [proceed |-> FALSE, blocked |-> FALSE, calls |-> {"profanityFilter.validateQuote"},
        resp |-> ValidationError("Author name cannot exceed 100 characters")]
  ELSE [proceed |-> TRUE, blocked |-> FALSE,
        calls |-> {"profanityFilter.validateQuote", "db.addQuote"}, resp |-> NoResp]

\* POST /quote with the return after the moderation rejection missing: the
\* handler goes on to db.addQuote
PostQuoteSyncNoReturn(text, author) ==
  IF ~Truthy(text) \/ ~Truthy(author)
  THEN [proceed |-> FALSE, blocked |-> FALSE, calls |-> {},
        resp |-> ValidationError("Both \"text\" and \"author\" fields are required")]
  ELSE IF TypeOf(text) # "string" \/ TypeOf(author) # "string"
  THEN [proceed |-> FALSE, blocked |-> FALSE, calls |-> {},
        resp |-> ValidationError("Both \"text\" and \"author\" must be strings")]
  ELSE IF Trim(text).len = 0 \/ Trim(author).len = 0
  THEN [proceed |-> FALSE, blocked |-> FALSE, calls |-> {},
        resp |-> ValidationError("Both \"text\" and \"author\" cannot be empty")]
  ELSE IF text.len > MaxTextLen
  THEN [proceed |-> FALSE, blocked |-> FALSE, calls |-> {},
        resp |-> ValidationError("Quote text cannot exceed 1000 characters")]
  ELSE IF author.len > MaxAuthorLen
  THEN [proceed |-> FALSE, blocked |-> FALSE, calls |-> {},
        resp |-> ValidationError("Author name cannot exceed 100 characters")]
  ELSE IF ~ValidateQuote(text, author).isValid
  THEN [proceed |-> TRUE, blocked |-> TRUE,
        calls |-> {"profanityFilter.validateQuote", "db.addQuote"},
        resp |-> Json(400, FALSE, "Profanity detected", ValidateQuote(text, author).message,
                      NoQuote)]
  ELSE [proceed |-> TRUE, blocked |-> FALSE,
        calls |-> {"profanityFilter.validateQuote", "db.addQuote"}, resp |-> NoResp]

\* POST /quote with the blocked counter incremented on every rejection
PostQuoteSyncCountAll(text, author) ==
  IF ~Truthy(text) \/ ~Truthy(author)
  THEN [proceed |-> FALSE, blocked |-> TRUE, calls |-> {},
        resp |-> ValidationError("Both \"text\" and \"author\" fields are required")]
  ELSE IF TypeOf(text) # "string" \/ TypeOf(author) # "string"
  THEN [proceed |-> FALSE, blocked |-> TRUE, calls |-> {},
        resp |-> ValidationError("Both \"text\" and \"author\" must be strings")]
  ELSE IF Trim(text).len = 0 \/ Trim(author).len = 0
  THEN [proceed |-> FALSE, blocked |-> TRUE, calls |-> {},
        resp |-> ValidationError("Both \"text\" and \"author\" cannot be empty")]
  ELSE IF text.len > MaxTextLen
  THEN [proceed |-> FALSE, blocked |-> TRUE, calls |-> {},
        resp |-> ValidationError("Quote text cannot exceed 1000 characters")]
  ELSE IF author.len > MaxAuthorLen
  THEN [proceed |-> FALSE, blocked |-> TRUE, calls |-> {},
        resp |-> ValidationError("Author name cannot exceed 100 characters")]
  ELSE IF ~ValidateQuote(text, author).isValid
  THEN [proceed |-> FALSE, blocked |-> TRUE, calls |-> {"profanityFilter.validateQuote"},
        resp |-> Json(400, FALSE, "Profanity detected", ValidateQuote(text, author).message,
                      NoQuote)]
  ELSE [proceed |-> TRUE, blocked |-> FALSE,
        calls |-> {"profanityFilter.validateQuote", "db.addQuote"}, resp |-> NoResp]

\* POST /quote with only the text handed to the moderation filter
PostQuoteSyncTextOnly(text, author) ==
  IF ~Truthy(text) \/ ~Truthy(author)
  THEN [proceed |-> FALSE, blocked |-> FALSE, calls |-> {},
        resp |-> ValidationError("Both \"text\" and \"author\" fields are required")]
  ELSE IF TypeOf(text) # "string" \/ TypeOf(author) # "string"
  THEN [proceed |-> FALSE, blocked |-> FALSE, calls |-> {},
        resp |-> ValidationError("Both \"text\" and \"author\" must be strings")]
  ELSE IF Trim(text).len = 0 \/ Trim(author).len = 0
  THEN [proceed |-> FALSE, blocked |-> FALSE, calls |-> {},
        resp |-> ValidationError("Both \"text\" and \"author\" cannot be empty")]
  ELSE IF text.len > MaxTextLen
  THEN [proceed |-> FALSE, blocked |-> FALSE, calls |-> {},
        resp |-> ValidationError("Quote text cannot exceed 1000 characters")]
  ELSE IF author.len > MaxAuthorLen
  THEN [proceed |-> FALSE, blocked |-> FALSE, calls |-> {},
        resp |-> ValidationError("Author name cannot exceed 100 characters")]
  ELSE IF ~ValidateQuote(text, Undefined).isValid
  THEN [proceed |-> FALSE, blocked |-> TRUE, calls |-> {"profanityFilter.validateQuote"},
        resp |-> Json(400, FALSE, "Profanity detected", ValidateQuote(text, Undefined).message,
                      NoQuote)]
  ELSE [proceed |-> TRUE, blocked |-> FALSE,
        calls |-> {"profanityFilter.validateQuote", "db.addQuote"}, resp |-> NoResp]

\* POST /quote with the two length limits applied to the trimmed strings
PostQuoteSyncTrimmedLengths(text, author) ==
  IF ~Truthy(text) \/ ~Truthy(author)
  THEN [proceed |-> FALSE, blocked |-> FALSE, calls |-> {},
        resp |-> ValidationError("Both \"text\" and \"author\" fields are required")]
  ELSE IF TypeOf(text) # "string" \/ TypeOf(author) # "string"
  THEN [proceed |-> FALSE, blocked |-> FALSE, calls |-> {},
        resp |-> ValidationError("Both \"text\" and \"author\" must be strings")]
  ELSE IF Trim(text).len = 0 \/ Trim(author).len = 0
  THEN [proceed |-> FALSE, blocked |-> FALSE, calls |-> {},
        resp |-> ValidationError("Both \"text\" and \"author\" cannot be empty")]
  ELSE IF Trim(text).len > MaxTextLen
  THEN [proceed |-> FALSE, blocked |-> FALSE, calls |-> {},
        resp |-> ValidationError("Quote text cannot exceed 1000 characters")]
  ELSE IF Trim(author).len > MaxAuthorLen
  THEN [proceed |-> FALSE, blocked |-> FALSE, calls |-> {},
        resp |-> ValidationError("Author name cannot exceed 100 characters")]
  ELSE IF ~ValidateQuote(text, author).isValid
  THEN [proceed |-> FALSE, blocked |-> TRUE, calls |-> {"profanityFilter.validateQuote"},
        resp |-> Json(400, FALSE, "Profanity detected", ValidateQuote(text, author).message,
                      NoQuote)]
  ELSE [proceed |-> TRUE, blocked |-> FALSE,
        calls |-> {"profanityFilter.validateQuote", "db.addQuote"}, resp |-> NoResp]

\* POST /quote from the destructuring of req.body to the call of db.addQuote:
\* the response sent before the store is reached, if any, the collaborators
\* called, and whether the blocked counter is incremented
PostQuoteSync(text, author) ==
  IF ~Truthy(text) \/ ~Truthy(author)
  THEN [proceed |-> FALSE, blocked |-> FALSE, calls |-> {},
        resp |-> ValidationError("Both \"text\" and \"author\" fields are required")]
  ELSE IF TypeOf(text) # "string" \/ TypeOf(author) # "string"
  THEN [proceed |-> FALSE, blocked |-> FALSE, calls |-> {},
        resp |-> ValidationError("Both \"text\" and \"author\" must be strings")]
  ELSE IF Trim(text).len = 0 \/ Trim(author).len = 0
  THEN [proceed |-> FALSE, blocked |-> FALSE, calls |-> {},
        resp |-> ValidationError("Both \"text\" and \"author\" cannot be empty")]
  ELSE IF text.len > MaxTextLen
  THEN [proceed |-> FALSE, blocked |-> FALSE, calls |-> {},
        resp |-> ValidationError("Quote text cannot exceed 1000 characters")]
  ELSE IF author.len > MaxAuthorLen
  THEN [proceed |-> FALSE, blocked |-> FALSE, calls |-> {},
        resp |-> ValidationError("Author name cannot exceed 100 characters")]
  ELSE IF ~ValidateQuote(text, author).isValid
  THEN [proceed |-> FALSE, blocked |-> TRUE, calls |-> {"profanityFilter.validateQuote"},
        resp |-> Json(400, FALSE, "Profanity detected", ValidateQuote(text, author).message,
                      NoQuote)]
  ELSE [proceed |-> TRUE, blocked |-> FALSE,
        calls |-> {"profanityFilter.validateQuote", "db.addQuote"}, resp |-> NoResp]

\* POST /quote calling db.addQuote(text, author) with the strings as received
PostQuoteUntrimmed(r, b) ==
  /\ Arrives(r)
  /\ LET o == PostQuoteSync(b.text, b.author)
     IN /\ req' = [req EXCEPT ![r] =
                     [Observed(r, "PostQuote", "POST", Route("/quote")) EXCEPT
                        !.body = b, !.calls = o.calls, !.resp = o.resp,
                        !.pc = IF o.proceed THEN "await" ELSE "sent",
                        !.args = IF o.proceed THEN [text |-> b.text, author |-> b.author]
                                 ELSE NoBody]]
        /\ profanityBlockedCounter' = profanityBlockedCounter + (IF o.blocked THEN 1 ELSE 0)
  /\ UNCHANGED <<quotes, nextId, quotesServedCounter, quotesAddedCounter,
                 httpRequestsCounter, requestDurationHistogram>>

\* POST /quote up to its first response or to the await of db.addQuote(text.trim(), author.trim())
PostQuote(r, b) ==
  /\ Arrives(r)
  /\ LET o == PostQuoteSync(b.text, b.author)
     IN /\ req' = [req EXCEPT ![r] =
                     [Observed(r, "PostQuote", "POST", Route("/quote")) EXCEPT
                        !.body = b, !.calls = o.calls, !.resp = o.resp,
                        !.pc = IF o.proceed THEN "await" ELSE "sent",
                        !.args = IF o.proceed
                                 THEN [text |-> Trim(b.text), author |-> Trim(b.author)]
                                 ELSE NoBody]]
        /\ profanityBlockedCounter' = profanityBlockedCounter + (IF o.blocked THEN 1 ELSE 0)
  /\ UNCHANGED <<quotes, nextId, quotesServedCounter, quotesAddedCounter,
                 httpRequestsCounter, requestDurationHistogram>>

\* POST /quote after the await, without the increment of quotes_added_total
PostQuoteResumeNoCount(r) ==
  /\ Resuming(r, "PostQuote")
  /\ IF req[r].ret.tag = "error"
     THEN Sent(r, StoreFault("Failed to add quote"))
     ELSE Sent(r, Json(201, TRUE, "", "Quote added successfully", QuoteData(req[r].ret.val)))
  /\ UNCHANGED <<quotes, nextId, quotesServedCounter, quotesAddedCounter,
                 profanityBlockedCounter, httpRequestsCounter, requestDurationHistogram>>

\* POST /quote after the await, with quotes_added_total incremented whether or
\* not db.addQuote succeeded
PostQuoteResumeCountFaults(r) ==
  /\ Resuming(r, "PostQuote")
  /\ quotesAddedCounter' = quotesAddedCounter + 1
  /\ IF req[r].ret.tag = "error"
     THEN Sent(r, StoreFault("Failed to add quote"))
     ELSE Sent(r, Json(201, TRUE, "", "Quote added successfully", QuoteData(req[r].ret.val)))
  /\ UNCHANGED <<quotes, nextId, quotesServedCounter, profanityBlockedCounter,
                 httpRequestsCounter, requestDurationHistogram>>

\* POST /quote after the await
PostQuoteResume(r) ==
  /\ Resuming(r, "PostQuote")
  /\ IF req[r].ret.tag = "error"
     THEN /\ Sent(r, StoreFault("Failed to add quote"))
          /\ UNCHANGED quotesAddedCounter
     ELSE /\ quotesAddedCounter' = quotesAddedCounter + 1
          /\ Sent(r, Json(201, TRUE, "", "Quote added successfully", QuoteData(req[r].ret.val)))
  /\ UNCHANGED <<quotes, nextId, quotesServedCounter, profanityBlockedCounter,
                 httpRequestsCounter, requestDurationHistogram>>

\* GET /quotes up to the await of db.getAllQuotes()
GetQuotes(r) ==
  /\ Arrives(r)
  /\ req' = [req EXCEPT ![r] = [Observed(r, "GetQuotes", "GET", Route("/quotes")) EXCEPT
                                  !.pc = "await", !.calls = {"db.getAllQuotes"}]]
  /\ UNCHANGED <<quotes, nextId, quotesServedCounter, quotesAddedCounter,
                 profanityBlockedCounter, httpRequestsCounter, requestDurationHistogram>>

\* GET /quotes after the await, listing the newest quote first
GetQuotesResumeNewestFirst(r) ==
  /\ Resuming(r, "GetQuotes")
  /\ IF req[r].ret.tag = "error"
     THEN Sent(r, StoreFault("Failed to fetch quotes"))
     ELSE LET l == req[r].ret.val
          IN Sent(r, Json(200, TRUE, "", "", [k \in 1..Len(l) |-> l[Len(l) + 1 - k]]))
  /\ UNCHANGED <<quotes, nextId, quotesServedCounter, quotesAddedCounter,
                 profanityBlockedCounter, httpRequestsCounter, requestDurationHistogram>>

\* GET /quotes after the await
GetQuotesResume(r) ==
  /\ Resuming(r, "GetQuotes")
  /\ IF req[r].ret.tag = "error"
     THEN Sent(r, StoreFault("Failed to fetch quotes"))
     ELSE Sent(r, Json(200, TRUE, "", "", req[r].ret.val))
  /\ UNCHANGED <<quotes, nextId, quotesServedCounter, quotesAddedCounter,
                 profanityBlockedCounter, httpRequestsCounter, requestDurationHistogram>>

\* GET /stats up to the await of db.getStats()
GetStats(r) ==
  /\ Arrives(r)
  /\ req' = [req EXCEPT ![r] = [Observed(r, "GetStats", "GET", Route("/stats")) EXCEPT
                                  !.pc = "await", !.calls = {"db.getStats"}]]
  /\ UNCHANGED <<quotes, nextId, quotesServedCounter, quotesAddedCounter,
                 profanityBlockedCounter, httpRequestsCounter, requestDurationHistogram>>

\* GET /stats after the await, counting the request as a quote served
GetStatsResumeCountsServed(r) ==
  /\ Resuming(r, "GetStats")
  /\ IF req[r].ret.tag = "error"
     THEN /\ Sent(r, StoreFault("Failed to fetch statistics"))
          /\ UNCHANGED quotesServedCounter
     ELSE /\ quotesServedCounter' = quotesServedCounter + 1
          /\ Sent(r, Json(200, TRUE, "", "",
                          [totalQuotes |-> req[r].ret.val.totalQuotes,
                           totalRandomQuoteRequests |-> req[r].ret.val.totalViews,
                           quotesAdded |-> quotesAddedCounter,
                           profanityBlocked |-> profanityBlockedCounter]))
  /\ UNCHANGED <<quotes, nextId, quotesAddedCounter, profanityBlockedCounter,
                 httpRequestsCounter, requestDurationHistogram>>

\* GET /stats after the await: the store's answer and the counters as they are
\* now (counter.get() taken to hand back its values at once, as the handler reads them)
GetStatsResume(r) ==
  /\ Resuming(r, "GetStats")
  /\ IF req[r].ret.tag = "error"
     THEN Sent(r, StoreFault("Failed to fetch statistics"))
     ELSE Sent(r, Json(200, TRUE, "", "",
                       [totalQuotes |-> req[r].ret.val.totalQuotes,
                        totalRandomQuoteRequests |-> req[r].ret.val.totalViews,
                        quotesAdded |-> quotesAddedCounter,
                        profanityBlocked |-> profanityBlockedCounter]))
  /\ UNCHANGED <<quotes, nextId, quotesServedCounter, quotesAddedCounter,
                 profanityBlockedCounter, httpRequestsCounter, requestDurationHistogram>>

\* DELETE /quote/:id up to its first response or to the await of db.deleteQuote(id)
DeleteQuote(r, p) ==
  /\ Arrives(r)
  /\ LET id == ParseInt(p)
         seen == Observed(r, "DeleteQuote", "DELETE", [path |-> "/quote", id |-> p])
     IN IF id.nan \/ id.n <= 0
        THEN req' = [req EXCEPT ![r] = [seen EXCEPT
                       !.pc = "sent",
                       !.resp = ValidationError("Quote id must be a positive integer")]]
        ELSE req' = [req EXCEPT ![r] = [seen EXCEPT
                       !.pc = "await", !.id = id.n, !.calls = {"db.deleteQuote"}]]
  /\ UNCHANGED <<quotes, nextId, quotesServedCounter, quotesAddedCounter,
                 profanityBlockedCounter, httpRequestsCounter, requestDurationHistogram>>

\* DELETE /quote/:id after the await, with a rejected store call taken for "no row removed"
DeleteQuoteResumeSwallow(r) ==
  /\ Resuming(r, "DeleteQuote")
  /\ IF req[r].ret.tag = "error" \/ ~req[r].ret.val
     THEN Sent(r, Json(404, FALSE, "Not Found", "Quote does not exist", NoQuote))
     ELSE Sent(r, Json(200, TRUE, "", "Quote deleted successfully", NoQuote))
  /\ UNCHANGED <<quotes, nextId, quotesServedCounter, quotesAddedCounter,
                 profanityBlockedCounter, httpRequestsCounter, requestDurationHistogram>>

\* DELETE /quote/:id after the await, without the check of what the store reported
DeleteQuoteResumeAlwaysOk(r) ==
  /\ Resuming(r, "DeleteQuote")
  /\ IF req[r].ret.tag = "error"
     THEN Sent(r, StoreFault("Failed to delete quote"))
     ELSE Sent(r, Json(200, TRUE, "", "Quote deleted successfully", NoQuote))
  /\ UNCHANGED <<quotes, nextId, quotesServedCounter, quotesAddedCounter,
                 profanityBlockedCounter, httpRequestsCounter, requestDurationHistogram>>

\* DELETE /quote/:id after the await
DeleteQuoteResume(r) ==
  /\ Resuming(r, "DeleteQuote")
  /\ IF req[r].ret.tag = "error"
     THEN Sent(r, StoreFault("Failed to delete quote"))
     ELSE IF ~req[r].ret.val
     THEN Sent(r, Json(404, FALSE, "Not Found", "Quote does not exist", NoQuote))
     ELSE Sent(r, Json(200, TRUE, "", "Quote deleted successfully", NoQuote))
  /\ UNCHANGED <<quotes, nextId, quotesServedCounter, quotesAddedCounter,
                 profanityBlockedCounter, httpRequestsCounter, requestDurationHistogram>>

\* GET /metrics up to the await of register.metrics()
GetMetrics(r) ==
  /\ Arrives(r)
  /\ req' = [req EXCEPT ![r] = [Observed(r, "GetMetrics", "GET", Route("/metrics")) EXCEPT
                                  !.pc = "await", !.calls = {"register.metrics"}]]
  /\ UNCHANGED <<quotes, nextId, quotesServedCounter, quotesAddedCounter,
                 profanityBlockedCounter, httpRequestsCounter, requestDurationHistogram>>

\* GET /metrics after the await, with the registry reset once it was rendered
GetMetricsResumeReset(r) ==
  /\ Resuming(r, "GetMetrics")
  /\ Sent(r, Json(200, TRUE, "", "", req[r].ret.val))
  /\ quotesServedCounter' = 0
  /\ quotesAddedCounter' = 0
  /\ profanityBlockedCounter' = 0
  /\ httpRequestsCounter' = EmptyBag
  /\ requestDurationHistogram' = EmptyBag
  /\ UNCHANGED <<quotes, nextId>>

\* GET /metrics after the await
GetMetricsResume(r) ==
  /\ Resuming(r, "GetMetrics")
  /\ Sent(r, Json(200, TRUE, "", "", req[r].ret.val))
  /\ UNCHANGED <<quotes, nextId, quotesServedCounter, quotesAddedCounter,
                 profanityBlockedCounter, httpRequestsCounter, requestDurationHistogram>>

\* the 'finish' event with the status label read as the response's default status
FinishDefaultStatus(r) ==
  /\ req[r].pc = "sent"
  /\ httpRequestsCounter' =
       httpRequestsCounter (+) SetToBag({<<req[r].method, req[r].route, 200>>})
  /\ requestDurationHistogram' =
       requestDurationHistogram (+) SetToBag({<<req[r].method, req[r].route>>})
  /\ req' = [req EXCEPT ![r].pc = "done"]
  /\ UNCHANGED <<quotes, nextId, quotesServedCounter, quotesAddedCounter,
                 profanityBlockedCounter>>

\* the response's 'finish' event: the middleware counts the request and stops its timer
Finish(r) ==
  /\ req[r].pc = "sent"
  /\ httpRequestsCounter' =
       httpRequestsCounter (+) SetToBag({<<req[r].method, req[r].route, req[r].resp.status>>})
  /\ requestDurationHistogram' =
       requestDurationHistogram (+) SetToBag({<<req[r].method, req[r].route>>})
  /\ req' = [req EXCEPT ![r].pc = "done"]
  /\ UNCHANGED <<quotes, nextId, quotesServedCounter, quotesAddedCounter,
                 profanityBlockedCounter>>

(***************************************************************************)
(* The values a statistics snapshot is made of, and their history while a  *)
(* statistics request is in flight                                         *)
(***************************************************************************)
Moment ==
  [totalQuotes |-> Stats(quotes).totalQuotes, totalRandomQuoteRequests |-> Stats(quotes).totalViews,
   quotesAdded |-> quotesAddedCounter, profanityBlocked |-> profanityBlockedCounter]

InFlight(q) == q.kind = "GetStats" /\ q.pc \in {"await", "resume"}

Observe ==
  moments' = [r \in Reqs |-> IF InFlight(req'[r]) THEN moments[r] \cup {Moment'} ELSE moments[r]]

\* the row the store is seeded with as its i-th
SeedQuote(i) ==
  [id |-> i, text |-> Str(2, 2, FALSE), author |-> Str(1, 1, FALSE), views |-> 0, createdAt |-> i]

\* a fresh process: the metrics at zero, no request yet, the store empty or seeded
Init ==
  /\ seeded \in 0..MaxSeed
  /\ quotes = [i \in 1..seeded |-> SeedQuote(i)]
  /\ nextId = seeded + 1
  /\ quotesServedCounter = 0
  /\ quotesAddedCounter = 0
  /\ profanityBlockedCounter = 0
  /\ httpRequestsCounter = EmptyBag
  /\ requestDurationHistogram = EmptyBag
  /\ req = [r \in Reqs |-> IdleReq]
  /\ moments = [r \in Reqs |-> {}]

Next ==
  \/ \E r \in Reqs : GetQuote(r) /\ Observe /\ UNCHANGED seeded
  \/ \E r \in Reqs : \E b \in Bodies : PostQuote(r, b) /\ Observe /\ UNCHANGED seeded
  \/ \E r \in Reqs : GetQuotes(r) /\ Observe /\ UNCHANGED seeded
  \/ \E r \in Reqs : GetStats(r) /\ Observe /\ UNCHANGED seeded
  \/ \E r \in Reqs : \E p \in IdParams : DeleteQuote(r, p) /\ Observe /\ UNCHANGED seeded
  \/ \E r \in Reqs : GetMetrics(r) /\ Observe /\ UNCHANGED seeded
  \/ \E r \in Reqs : DbGetRandomQuote(r) /\ Observe /\ UNCHANGED seeded
  \/ \E r \in Reqs : DbAddQuote(r) /\ Observe /\ UNCHANGED seeded
  \/ \E r \in Reqs : DbGetAllQuotes(r) /\ Observe /\ UNCHANGED seeded
  \/ \E r \in Reqs : DbGetStats(r) /\ Observe /\ UNCHANGED seeded
  \/ \E r \in Reqs : DbDeleteQuote(r) /\ Observe /\ UNCHANGED seeded
  \/ \E r \in Reqs : RegisterMetrics(r) /\ Observe /\ UNCHANGED seeded
  \/ \E r \in Reqs : DbFault(r) /\ Observe /\ UNCHANGED seeded
  \/ \E r \in Reqs : GetQuoteResume(r) /\ Observe /\ UNCHANGED seeded
  \/ \E r \in Reqs : PostQuoteResume(r) /\ Observe /\ UNCHANGED seeded
  \/ \E r \in Reqs : GetQuotesResume(r) /\ Observe /\ UNCHANGED seeded
  \/ \E r \in Reqs : GetStatsResume(r) /\ Observe /\ UNCHANGED seeded
  \/ \E r \in Reqs : DeleteQuoteResume(r) /\ Observe /\ UNCHANGED seeded
  \/ \E r \in Reqs : GetMetricsResume(r) /\ Observe /\ UNCHANGED seeded
  \/ \E r \in Reqs : Finish(r) /\ Observe /\ UNCHANGED seeded

Spec == Init /\ [][Next]_vars

\* what the event loop does with a request that has arrived: the awaited call
\* settles, the continuation runs, the response finishes
Step(r) ==
  \/ DbGetRandomQuote(r) \/ DbAddQuote(r) \/ DbGetAllQuotes(r) \/ DbGetStats(r)
  \/ DbDeleteQuote(r) \/ RegisterMetrics(r) \/ DbFault(r)
  \/ GetQuoteResume(r) \/ PostQuoteResume(r) \/ GetQuotesResume(r) \/ GetStatsResume(r)
  \/ DeleteQuoteResume(r) \/ GetMetricsResume(r) \/ Finish(r)

Progress == \E r \in Reqs : Step(r) /\ Observe /\ UNCHANGED seeded

\* one body and one :id for each way a handler can go: a valid body, a profane
\* one, one without author; an id that may be live, an id that is no number
PathBodies ==
  { [text |-> Str(2, 1, FALSE), author |-> Str(1, 1, FALSE)],
    [text |-> Str(2, 2, TRUE), author |-> Str(1, 1, FALSE)],
    [text |-> Str(1, 1, FALSE), author |-> Undefined] }

PathIdParams == { <<"1">>, <<"a">> }

NextFair ==
  \/ \E r \in Reqs : GetQuote(r) /\ Observe /\ UNCHANGED seeded
  \/ \E r \in Reqs : \E b \in PathBodies : PostQuote(r, b) /\ Observe /\ UNCHANGED seeded
  \/ \E r \in Reqs : GetQuotes(r) /\ Observe /\ UNCHANGED seeded
  \/ \E r \in Reqs : GetStats(r) /\ Observe /\ UNCHANGED seeded
  \/ \E r \in Reqs : \E p \in PathIdParams : DeleteQuote(r, p) /\ Observe /\ UNCHANGED seeded
  \/ \E r \in Reqs : GetMetrics(r) /\ Observe /\ UNCHANGED seeded
  \/ Progress

\* the event loop does not stop while a callback is ready and every store call
\* returns or fails
SpecFair == Init /\ [][NextFair]_vars /\ WF_vars(Progress)

\* one submit-quote request, its body drawn from all the bodies
NextSubmit ==
  \/ \E b \in AllBodies : PostQuote(1, b) /\ Observe /\ UNCHANGED seeded
  \/ DbAddQuote(1) /\ Observe /\ UNCHANGED seeded
  \/ DbFault(1) /\ Observe /\ UNCHANGED seeded
  \/ PostQuoteResume(1) /\ Observe /\ UNCHANGED seeded
  \/ Finish(1) /\ Observe /\ UNCHANGED seeded

SpecSubmit == Init /\ [][NextSubmit]_vars

\* the :id parameters of remove-quote requests: positive integers, and strings
\* that are none (a letter, zero, a negative number, a fraction, digits
\* followed by letters, the empty string)
AllIdParams ==
  { <<"1">>, <<"2">>, <<"a">>, <<"0">>, <<"-", "1">>, <<"1", ".", "5">>,
    <<"1", "2", "a", "b", "c">>, <<>> }

\* remove-quote requests only, their :id drawn from all the parameters
NextRemove ==
  \/ \E r \in Reqs : \E p \in AllIdParams : DeleteQuote(r, p) /\ Observe /\ UNCHANGED seeded
  \/ \E r \in Reqs : DbDeleteQuote(r) /\ Observe /\ UNCHANGED seeded
  \/ \E r \in Reqs : DbFault(r) /\ Observe /\ UNCHANGED seeded
  \/ \E r \in Reqs : DeleteQuoteResume(r) /\ Observe /\ UNCHANGED seeded
  \/ \E r \in Reqs : Finish(r) /\ Observe /\ UNCHANGED seeded

SpecRemove == Init /\ [][NextRemove]_vars

(***************************************************************************)
(* Properties                                                              *)
(***************************************************************************)
Submits == {r \in Reqs : req[r].kind = "PostQuote"}
Answered(r) == req[r].pc \in {"sent", "done"}

MsgRequired == "Both \"text\" and \"author\" fields are required"
MsgStrings == "Both \"text\" and \"author\" must be strings"
MsgEmpty == "Both \"text\" and \"author\" cannot be empty"
MsgTextLen == "Quote text cannot exceed 1000 characters"
MsgAuthorLen == "Author name cannot exceed 100 characters"

ReasonOfCheck(k) == <<MsgRequired, MsgStrings, MsgEmpty, MsgTextLen, MsgAuthorLen>>[k]

\* missing or null
IsNullish(x) == x = Undefined \/ x = Null

PresentNonNull(x) == ~IsNullish(x)

\* neither missing, null, false, 0 nor the empty string
NotFalsy(x) == x \notin {Undefined, Null, False, Num(0)} /\ ~(x.t = "string" /\ x.len = 0)

\* the first of the five structural checks the body fails, 0 when it passes them
\* all; check 1 is "present and non-null", or "not falsy" when falsyIsAbsent
FirstFailedCheck(b, falsyIsAbsent) ==
  LET Present(x) == IF falsyIsAbsent THEN NotFalsy(x) ELSE PresentNonNull(x)
  IN IF ~Present(b.text) \/ ~Present(b.author) THEN 1
     ELSE IF b.text.t # "string" \/ b.author.t # "string" THEN 2
     ELSE IF b.text.trimmed = 0 \/ b.author.trimmed = 0 THEN 3
     ELSE IF b.text.len > 1000 THEN 4
     ELSE IF b.author.len > 100 THEN 5
     ELSE 0

RejectedFor(r, k) ==
  /\ Answered(r)
  /\ req[r].resp.status = 400
  /\ req[r].resp.error = "Validation error"
  /\ req[r].resp.message = ReasonOfCheck(k)

\* C1 as stated: the reason reported for a submission is that of the first check
\* it fails, among (1) both fields present and non-null, (2) strings, (3) trimmed
\* non-empty, (4) text length <= 1000, (5) author length <= 100; so 0, false and
\* "" are not rejected as 'required'
C1_AsStated ==
  \A r \in Submits :
    LET k == FirstFailedCheck(req[r].body, FALSE) IN k # 0 => RejectedFor(r, k)

\* C1 amended: the same with check (1) failing for every falsy field (missing,
\* null, false, 0, ""): the reason reported is that of the first failed check, and
\* a submission that passes the five checks is not rejected by them
C1_FirstFailureWins ==
  \A r \in Submits :
    LET k == FirstFailedCheck(req[r].body, TRUE)
    IN IF k # 0 THEN RejectedFor(r, k) ELSE req[r].resp.error # "Validation error"

\* a number 0 as text is rejected as 'required'
C1_Witness ==
  \E r \in Submits :
    /\ req[r].body.text = Num(0)
    /\ req[r].body.author = Str(1, 1, FALSE)
    /\ RejectedFor(r, 1)

\* C2: a submission that fails any structural check is rejected with a validation
\* reason, the moderation filter is not called for it and the blocked counter
\* is not incremented
C2_FilterAfterStructure ==
  \A r \in Submits :
    FirstFailedCheck(req[r].body, FALSE) # 0 =>
      /\ Answered(r)
      /\ req[r].resp.status = 400
      /\ req[r].resp.error = "Validation error"
      /\ req[r].resp.message \in {ReasonOfCheck(k) : k \in 1..5}
      /\ "profanityFilter.validateQuote" \notin req[r].calls
      /\ profanityBlockedCounter =
           Cardinality({q \in Submits \ {r} : req[q].resp.error = "Profanity detected"})

\* a too long text that holds a disallowed word is rejected for its length
C2_Witness ==
  \E r \in Submits :
    /\ req[r].body.text.bad
    /\ req[r].body.text.trimmed > 1000
    /\ RejectedFor(r, 4)
    /\ req[r].calls = {}
    /\ profanityBlockedCounter = 0

Rejected(q) == q.kind = "PostQuote" /\ q.resp.status = 400

\* C3: a rejected submission never reaches db.addQuote, and the step that
\* rejects it changes neither the store nor the quotes-added counter
C3_RejectionLeavesStore ==
  /\ [](\A r \in Reqs : Rejected(req[r]) =>
          /\ "db.addQuote" \notin req[r].calls
          /\ req[r].ret.tag = "pending"
          /\ Answered(r))
  /\ [][\A r \in Reqs : ~Rejected(req[r]) /\ Rejected(req'[r]) =>
          /\ quotes' = quotes
          /\ nextId' = nextId
          /\ quotesAddedCounter' = quotesAddedCounter]_vars

\* a profane submission was rejected and the store holds what it was seeded with
C3_Witness ==
  \E r \in Submits :
    /\ req[r].resp.error = "Profanity detected"
    /\ req[r].pc = "done"
    /\ seeded = 1
    /\ quotes = [i \in 1..1 |-> SeedQuote(i)]
    /\ quotesAddedCounter = 0

Profane(b) == b.text.bad \/ b.author.bad

\* C4: the blocked counter is the number of submissions that passed the five
\* structural checks and hold a disallowed word, each of them rejected by moderation
C4_BlockedCounts ==
  LET blocked == {r \in Submits : FirstFailedCheck(req[r].body, FALSE) = 0
                                    /\ Profane(req[r].body)}
  IN /\ profanityBlockedCounter = Cardinality(blocked)
     /\ \A r \in Submits : r \in blocked <=> req[r].resp.error = "Profanity detected"

\* on a fresh process with an empty store, one profane submission: the counter is 1
\* and the store still empty
C4_Witness ==
  /\ seeded = 0
  /\ Cardinality(Submits) = 1
  /\ \E r \in Submits : req[r].pc = "done" /\ req[r].resp.error = "Profanity detected"
  /\ profanityBlockedCounter = 1
  /\ LiveIds = {}

Created(r) == req[r].kind = "PostQuote" /\ req[r].resp.status = 201

\* C5: a submission that passes the structural checks and the filter, with no
\* storage fault, is answered with the created quote: views 0 and an id no
\* seeded row and no other created quote has; the store creates one row per such
\* submission and the quotes-added counter counts them
C5_AddSucceeds ==
  /\ \A r \in Submits :
       (/\ FirstFailedCheck(req[r].body, FALSE) = 0
        /\ ~Profane(req[r].body)
        /\ Answered(r)
        /\ req[r].ret.tag # "error") =>
         /\ Created(r)
         /\ req[r].resp.data.views = 0
         /\ req[r].resp.data.text = Trim(req[r].body.text)
         /\ req[r].resp.data.author = Trim(req[r].body.author)
         /\ req[r].resp.data.id \in (seeded + 1)..(nextId - 1)
         /\ \A q \in Submits \ {r} : Created(q) => req[q].resp.data.id # req[r].resp.data.id
  /\ nextId - 1 - seeded = Cardinality({r \in Submits : req[r].ret.tag = "quote"})
  /\ quotesAddedCounter = Cardinality({r \in Submits : Created(r)})

\* two submissions were answered with two quotes
C5_Witness ==
  /\ \A r \in {1, 2} : Created(r) /\ req[r].resp.data.views = 0
  /\ req[1].resp.data.id # req[2].resp.data.id
  /\ quotesAddedCounter = 2
Reads == {r \in Reqs : req[r].kind = "GetQuote"}
Served(r) == req[r].kind = "GetQuote" /\ req[r].resp.status = 200
Selected(q) == q.kind = "GetQuote" /\ q.ret.tag = "quote"

\* C6 as stated: the four values of every statistics snapshot returned held
\* together at one moment while its request was in flight
C6_ConsistentSnapshot ==
  \A r \in Reqs :
    (req[r].kind = "GetStats" /\ req[r].resp.status = 200) => req[r].resp.data \in moments[r]

\* C7: no increment is lost: every live quote's views is the number of random
\* reads that selected it, whatever their interleaving; every read of a store
\* that holds a quote, is not being changed by a submission or a removal and
\* does not fault selects a quote, and every read that selected one is answered
\* with it
C7_NoLostIncrement ==
  /\ \A i \in LiveIds :
       quotes[i].views = Cardinality({r \in Reads : Selected(req[r]) /\ req[r].ret.val.id = i})
  /\ (seeded >= 1 /\ \A r \in Reqs : req[r].kind \in {"none", "GetQuote"}) =>
       \A r \in Reads : req[r].ret.tag \in {"pending", "error", "quote"}
  /\ \A r \in Reads : (Selected(req[r]) /\ Answered(r)) => Served(r)

\* two reads of a single-quote store, both waiting for their continuation at
\* the same time, have left views = 2
C7_Witness ==
  /\ seeded = 1
  /\ LiveIds = {1}
  /\ \A r \in {1, 2} : Selected(req[r]) /\ req[r].pc = "resume"
  /\ quotes[1].views = 2

\* C8: the quote a random read returns is live when its views increment takes
\* effect, and the increment is by one on that row; no step brings back a
\* row that was removed, and views change on no row but a live one
C8_ReadRacingDelete ==
  /\ [][\A r \in Reqs : (~Selected(req[r]) /\ Selected(req'[r])) =>
          LET i == req'[r].ret.val.id
          IN /\ i \in LiveIds
             /\ i \in DOMAIN quotes'
             /\ quotes'[i].views = quotes[i].views + 1
             /\ req'[r].ret.val = quotes'[i]]_vars
  /\ [][\A i \in DOMAIN quotes' : i \in LiveIds \/ i = nextId]_vars
  /\ [](LiveIds \subseteq 1..(nextId - 1))

\* a read selected the quote and a removal then deleted it
C8_Witness ==
  \E r, d \in Reqs :
    /\ Selected(req[r])
    /\ req[r].ret.val.id = 1
    /\ req[r].pc = "resume"
    /\ req[d].kind = "DeleteQuote"
    /\ req[d].ret.tag = "removed"
    /\ req[d].ret.val
    /\ 1 \notin LiveIds

\* C9: a random read gets none from the store exactly when no quote is live at
\* the selection, and then changes no quote; none is answered as the normal
\* 'no quotes' outcome, a selected quote is answered with that quote, and the
\* quotes-served counter counts the answered quotes only
C9_NoneIffEmpty ==
  /\ [][\A r \in Reqs :
          (req[r].kind = "GetQuote" /\ req[r].ret.tag = "pending"
             /\ req'[r].ret.tag \in {"null", "quote"}) =>
            /\ req'[r].ret.tag = "null" <=> LiveIds = {}
            /\ req'[r].ret.tag = "null" => quotes' = quotes
            /\ req'[r].ret.tag = "quote" => req'[r].ret.val.id \in LiveIds]_vars
  /\ [](\A r \in Reads : Answered(r) =>
          /\ req[r].ret.tag = "null" =>
               /\ req[r].resp.status = 404
               /\ req[r].resp.error = "No quotes found in database"
          /\ req[r].ret.tag = "quote" =>
               /\ Served(r)
               /\ req[r].resp.data = QuoteData(req[r].ret.val))
  /\ [](quotesServedCounter = Cardinality({r \in Reads : Served(r)}))

\* a read of the empty store was answered 'no quotes' and counted as not served
C9_Witness ==
  /\ seeded = 0
  /\ \E r \in Reads :
       req[r].ret.tag = "null" /\ req[r].pc = "done" /\ req[r].resp.status = 404
  /\ quotesServedCounter = 0
  /\ LiveIds = {}

FaultError(kind) ==
  CASE kind = "GetQuote" -> "Failed to fetch quote"
    [] kind = "PostQuote" -> "Failed to add quote"
    [] kind = "GetQuotes" -> "Failed to fetch quotes"
    [] kind = "GetStats" -> "Failed to fetch statistics"
    [] kind = "DeleteQuote" -> "Failed to delete quote"
    [] OTHER -> "Failed to generate metrics"

\* C10: a request whose store call faulted is answered with the store-fault
\* failure of its operation and no other request is; a faulted submission is
\* not counted as added, a faulted random read not as served
C10_FaultsSurface ==
  /\ \A r \in Reqs : Answered(r) =>
       /\ req[r].ret.tag = "error" <=> req[r].resp.status = 500
       /\ req[r].ret.tag = "error" =>
            /\ ~req[r].resp.success
            /\ req[r].resp.error = FaultError(req[r].kind)
  /\ quotesAddedCounter =
       Cardinality({r \in Submits : Answered(r) /\ req[r].ret.tag = "quote"})
  /\ quotesServedCounter =
       Cardinality({r \in Reads : Answered(r) /\ req[r].ret.tag = "quote"})

\* a removal whose store call faulted was answered with the store fault
C10_Witness ==
  \E r \in Reqs :
    /\ req[r].kind = "DeleteQuote"
    /\ req[r].ret.tag = "error"
    /\ req[r].pc = "done"
    /\ req[r].resp.status = 500
    /\ req[r].resp.error = "Failed to delete quote"

\* the rows the store has created in this process, and those it was seeded with
CreatedRows == {req[r].ret.val : r \in {q \in Submits : req[q].ret.tag = "quote"}}
SeedRows == {SeedQuote(i) : i \in 1..seeded}
Removals == {r \in Reqs : req[r].kind = "DeleteQuote"}
Removed(r) == req[r].kind = "DeleteQuote" /\ req[r].ret.tag = "removed" /\ req[r].ret.val

\* C11: the ids the store has assigned, to live and to deleted quotes alike, are
\* positive, pairwise different and increase in creation order; every live
\* quote is stored under the id it was assigned
C11_IdsNeverReused ==
  LET rows == SeedRows \cup CreatedRows
  IN /\ \A a \in rows : a.id >= 1
     /\ \A a, b \in rows : a.createdAt < b.createdAt => a.id < b.id
     /\ Cardinality({a.id : a \in rows}) = seeded + Cardinality({r \in Submits : req[r].ret.tag = "quote"})
     /\ \A i \in LiveIds : quotes[i].id = i /\ i \in {a.id : a \in rows}

\* the seeded quote, the one with the highest id, was deleted and the quote
\* added afterwards got the next id
C11_Witness ==
  /\ seeded = 1
  /\ \E d \in Removals : Removed(d) /\ req[d].id = 1 /\ req[d].pc = "done"
  /\ \E r \in Submits : req[r].ret.tag = "quote" /\ req[r].ret.val.id = 2
  /\ LiveIds = {2}

ReportedFalse(r) == req[r].kind = "DeleteQuote" /\ req[r].ret.tag = "removed" /\ ~req[r].ret.val

StatsReqs == {r \in Reqs : req[r].kind = "GetStats"}
StatsAnswered(r) == req[r].kind = "GetStats" /\ req[r].resp.status = 200

\* C13: no step of a statistics request changes a quote, the id the store
\* assigns next, or the quotes-added, profanity-blocked and quotes-served
\* counters; two statistics requests during whose flights the store and the
\* counters held one and the same values are answered with the same
\* totalQuotes, totalViews, quotesAdded and profanityBlocked, those values
C13_StatsReadOnly ==
  /\ [][\A r \in Reqs : (req'[r].kind = "GetStats" /\ req'[r] # req[r]) =>
          /\ quotes' = quotes
          /\ nextId' = nextId
          /\ quotesAddedCounter' = quotesAddedCounter
          /\ profanityBlockedCounter' = profanityBlockedCounter
          /\ quotesServedCounter' = quotesServedCounter]_vars
  /\ [](\A r, q \in StatsReqs :
          (/\ StatsAnswered(r) /\ StatsAnswered(q)
           /\ moments[r] = moments[q]
           /\ Cardinality(moments[r]) = 1) =>
            /\ req[r].resp.data = req[q].resp.data
            /\ req[r].resp.data \in moments[r])

\* two statistics requests of a seeded store, in flight together, were answered
\* alike and the store and the counters are as they were at startup
C13_Witness ==
  /\ seeded = 1
  /\ \A r \in {1, 2} : StatsAnswered(r) /\ req[r].pc = "done"
  /\ req[1].resp.data = req[2].resp.data
  /\ req[1].resp.data.totalQuotes = 1
  /\ moments[1] = moments[2]
  /\ quotes = [i \in 1..1 |-> SeedQuote(i)]
  /\ quotesAddedCounter = 0 /\ profanityBlockedCounter = 0 /\ quotesServedCounter = 0

Counted == {r \in Reqs : req[r].pc = "done"}
RequestCell(r) == <<req[r].method, req[r].route, req[r].resp.status>>
DurationCell(r) == <<req[r].method, req[r].route>>

\* C14: the HTTP request counter holds, per {method, route, status} cell, the
\* number of finished requests with that method, route and response status, and
\* the histogram, per {method, route} cell, one sample for each of them: no
\* request is counted before it has finished, under another status or twice;
\* and from some moment on every request that has arrived has been counted
C14_EveryRequestCounted ==
  /\ [](httpRequestsCounter =
          [c \in {RequestCell(r) : r \in Counted} |->
             Cardinality({r \in Counted : RequestCell(r) = c})])
  /\ [](requestDurationHistogram =
          [c \in {DurationCell(r) : r \in Counted} |->
             Cardinality({r \in Counted : DurationCell(r) = c})])
  /\ [](\A r \in Counted : req[r].resp.status \in {200, 201, 400, 404, 500})
  /\ <>[](\A r \in Reqs : req[r].pc \in {"idle", "done"})

\* a rejected submission and a removal of an id that is not live have both been
\* counted, each in its own cell
C14_Witness ==
  /\ req[1].kind = "PostQuote" /\ req[1].pc = "done" /\ req[1].resp.status = 400
  /\ req[2].kind = "DeleteQuote" /\ req[2].pc = "done" /\ req[2].resp.status = 404
  /\ CopiesIn(<<"POST", Route("/quote"), 400>>, httpRequestsCounter) = 1
  /\ CopiesIn(<<"DELETE", [path |-> "/quote", id |-> <<"1">>], 404>>, httpRequestsCounter) = 1
  /\ BagCardinality(httpRequestsCounter) = 2
  /\ BagCardinality(requestDurationHistogram) = 2

Exports == {r \in Reqs : req[r].kind = "GetMetrics"}

\* C15 as stated: once an export-metrics request has completed, the four
\* counters and the histogram are what they were before it began; here for
\* an export that is the only request the process has seen
C15_AsStated ==
  \A r \in Exports :
    (req[r].pc = "done" /\ \A q \in Reqs \ {r} : req[q].pc = "idle") =>
      /\ quotesServedCounter = 0
      /\ quotesAddedCounter = 0
      /\ profanityBlockedCounter = 0
      /\ httpRequestsCounter = EmptyBag
      /\ requestDurationHistogram = EmptyBag

\* C15 amended: no step of an export-metrics request changes a quote or the
\* quotes-served, quotes-added and profanity-blocked counters; rendering and
\* sending change no metric at all, and what is rendered is the registry as
\* it is at the call; the request's own 'finish' event adds one to the cell
\* {GET, /metrics, status} of the request counter and one sample to the cell
\* {GET, /metrics} of the histogram and changes no other cell
C15_ExportObservedOnly ==
  [][\A r \in Reqs : (req'[r].kind = "GetMetrics" /\ req'[r] # req[r]) =>
       /\ quotes' = quotes
       /\ quotesServedCounter' = quotesServedCounter
       /\ quotesAddedCounter' = quotesAddedCounter
       /\ profanityBlockedCounter' = profanityBlockedCounter
       /\ IF req'[r].pc = "done"
          THEN /\ httpRequestsCounter' = httpRequestsCounter (+)
                     SetToBag({<<"GET", Route("/metrics"), req[r].resp.status>>})
               /\ requestDurationHistogram' = requestDurationHistogram (+)
                     SetToBag({<<"GET", Route("/metrics")>>})
          ELSE /\ httpRequestsCounter' = httpRequestsCounter
               /\ requestDurationHistogram' = requestDurationHistogram
       /\ (req[r].pc = "await" /\ req'[r].pc = "resume") =>
            req'[r].ret.val =
              [quotes_served_total |-> quotesServedCounter,
               quotes_added_total |-> quotesAddedCounter,
               profanity_blocked_total |-> profanityBlockedCounter,
               http_requests_total |-> httpRequestsCounter,
               http_request_duration_seconds |-> requestDurationHistogram]]_vars

\* two exports one after the other: the first rendered an empty request
\* counter, the second the first one's own request
C15_Witness ==
  /\ \A r \in {1, 2} : req[r].kind = "GetMetrics" /\ req[r].pc = "done"
  /\ req[1].ret.val.http_requests_total = EmptyBag
  /\ req[2].ret.val.http_requests_total = SetToBag({<<"GET", Route("/metrics"), 200>>})
  /\ req[1].ret.val.quotes_served_total = req[2].ret.val.quotes_served_total
  /\ BagCardinality(httpRequestsCounter) = 2

Listings == {r \in Reqs : req[r].kind = "GetQuotes"}
Listed(r) == req[r].kind = "GetQuotes" /\ req[r].ret.tag = "list"

\* C16: what db.getAllQuotes returns is the quotes live at the call, each once,
\* in ascending creation time, and the call changes no quote; the request is
\* answered with that list as returned, whatever was read, added or removed
\* after the call
C16_ListingSnapshot ==
  /\ [][\A r \in Reqs :
          (req[r].kind = "GetQuotes" /\ req[r].ret.tag = "pending"
             /\ req'[r].ret.tag = "list") =>
            LET l == req'[r].ret.val
            IN /\ Len(l) = Cardinality(LiveIds)
               /\ {l[k] : k \in 1..Len(l)} = {quotes[i] : i \in LiveIds}
               /\ \A j, k \in 1..Len(l) : j < k => l[j].createdAt < l[k].createdAt
               /\ quotes' = quotes]_vars
  /\ [](\A r \in Listings : (Listed(r) /\ Answered(r)) =>
          /\ req[r].resp.status = 200
          /\ req[r].resp.data = req[r].ret.val)

\* a listing of the seeded quote and of one added after it was answered
\* with the two in creation order
C16_Witness ==
  /\ seeded = 1
  /\ \E r \in Listings :
       /\ Listed(r) /\ req[r].pc = "done"
       /\ Len(req[r].resp.data) = 2
       /\ req[r].resp.data[1] = SeedQuote(1)
       /\ req[r].resp.data[2].id = 2
  /\ \E a \in Submits : Created(a)

SubmitInFlight(r) == req[r].kind = "PostQuote" /\ req[r].pc \in {"await", "resume"}

\* C17: the quotes-added counter is the number of submissions whose
\* db.addQuote call returned a created quote and whose continuation has run;
\* so it never exceeds the number of quotes the store has created for
\* submissions in this process (the rows it was seeded with are not among
\* them), and equals it whenever no submission is in flight
C17_AddedCountsCreations ==
  LET created == {r \in Submits : req[r].ret.tag = "quote"}
  IN /\ quotesAddedCounter = Cardinality({r \in created : Answered(r)})
     /\ \A r \in created : req[r].ret.val \in CreatedRows /\ req[r].ret.val.id >= seeded + 1
     /\ Cardinality(CreatedRows) = Cardinality(created)
     /\ quotesAddedCounter <= Cardinality(CreatedRows)
     /\ (\A r \in Reqs : ~SubmitInFlight(r)) => quotesAddedCounter = Cardinality(CreatedRows)

\* one submission has been counted, another's quote is in the store but its
\* continuation has not run yet: the counter is behind by one
C17_Witness ==
  /\ Created(1)
  /\ req[2].kind = "PostQuote" /\ req[2].ret.tag = "quote" /\ req[2].pc = "resume"
  /\ quotesAddedCounter = 1
  /\ Cardinality(CreatedRows) = 2

ReadsOf(i) == {r \in Reads : Selected(req[r]) /\ req[r].ret.val.id = i}

\* C18: the reads that selected one quote were returned its views as 1, 2, ...,
\* each value once, so every read is returned a count that includes itself and
\* the first read of a quote is returned views = 1; the request is answered
\* with that count; and a getStats call on a store whose only quote is that one
\* reports as totalViews the highest count its reads were returned
C18_ViewsIncludeThisRead ==
  /\ [](\A i \in 1..(nextId - 1) :
          {req[r].ret.val.views : r \in ReadsOf(i)} = 1..Cardinality(ReadsOf(i)))
  /\ [](\A r \in Reads : Served(r) => req[r].resp.data.views = req[r].ret.val.views)
  /\ [][\A r \in Reqs :
          (req[r].kind = "GetStats" /\ req[r].ret.tag = "pending"
             /\ req'[r].ret.tag = "stats" /\ Cardinality(LiveIds) = 1) =>
            \A i \in LiveIds :
              /\ req'[r].ret.val.totalQuotes = 1
              /\ req'[r].ret.val.totalViews = Cardinality(ReadsOf(i))]_vars
  /\ [](\A r \in StatsReqs : StatsAnswered(r) =>
          req[r].resp.data.totalRandomQuoteRequests = req[r].ret.val.totalViews)

\* the only quote had no views; a read was answered with views = 1 and the
\* statistics request after it with totalViews = 1
C18_Witness ==
  /\ seeded = 1
  /\ Served(1) /\ req[1].resp.data.views = 1 /\ req[1].pc = "done"
  /\ StatsAnswered(2)
  /\ req[2].resp.data.totalQuotes = 1
  /\ req[2].resp.data.totalRandomQuoteRequests = 1

Moderated(r) ==
  /\ req[r].kind = "PostQuote"
  /\ Answered(r)
  /\ req[r].resp.status = 400
  /\ req[r].resp.error = "Profanity detected"
  /\ req[r].resp.message = "Quote contains inappropriate language"

\* C19: a submission that passes the five structural checks is rejected by
\* moderation exactly when its text or its author holds a disallowed word,
\* whichever of the two it is; the rejection is counted in the blocked counter,
\* calls the filter and not the store, and leaves the store and the
\* quotes-added counter as they were; a clean pair is handed to the store
C19_ModerationSymmetric ==
  \A r \in Submits :
    FirstFailedCheck(req[r].body, TRUE) = 0 =>
      /\ Moderated(r) <=> (req[r].body.text.bad \/ req[r].body.author.bad)
      /\ "profanityFilter.validateQuote" \in req[r].calls
      /\ IF Moderated(r)
         THEN /\ profanityBlockedCounter = 1
              /\ "db.addQuote" \notin req[r].calls
              /\ req[r].ret.tag = "pending"
              /\ quotes = [i \in 1..seeded |-> SeedQuote(i)]
              /\ nextId = seeded + 1
              /\ quotesAddedCounter = 0
         ELSE /\ profanityBlockedCounter = 0
              /\ "db.addQuote" \in req[r].calls
              /\ req[r].args = [text |-> Trim(req[r].body.text), author |-> Trim(req[r].body.author)]

\* a clean text with a profane author was rejected by moderation, counted and
\* not stored
C19_Witness ==
  \E r \in Submits :
    /\ req[r].body.text = Str(1, 1, FALSE)
    /\ req[r].body.author = Str(1, 1, TRUE)
    /\ Moderated(r)
    /\ req[r].pc = "done"
    /\ profanityBlockedCounter = 1
    /\ LiveIds = 1..seeded

NothingStored(r) ==
  /\ "db.addQuote" \notin req[r].calls
  /\ req[r].ret.tag = "pending"
  /\ quotes = [i \in 1..seeded |-> SeedQuote(i)]
  /\ nextId = seeded + 1

NonEmptyStrings(b) ==
  /\ b.text.t = "string" /\ b.text.trimmed >= 1
  /\ b.author.t = "string" /\ b.author.trimmed >= 1

\* C20: of a submission of two strings that are not empty when trimmed, the
\* text's length before trimming is held against 1000 and then the author's
\* against 100, also when the trimmed string is within the limit: it is
\* rejected with the text-length or the author-length reason and nothing is
\* stored; what the store is called with is the trimmed strings
C20_LimitsOnUntrimmed ==
  \A r \in Submits :
    NonEmptyStrings(req[r].body) =>
      /\ req[r].body.text.len > MaxTextLen => RejectedFor(r, 4) /\ NothingStored(r)
      /\ (req[r].body.text.len <= MaxTextLen /\ req[r].body.author.len > MaxAuthorLen) =>
           RejectedFor(r, 5) /\ NothingStored(r)
      /\ "db.addQuote" \in req[r].calls =>
           /\ req[r].args.text.len = req[r].body.text.trimmed
           /\ req[r].args.author.len = req[r].body.author.trimmed
           /\ req[r].body.text.len <= MaxTextLen
           /\ req[r].body.author.len <= MaxAuthorLen

\* a text of 1001 characters, 1000 when trimmed, was rejected for its length
C20_Witness ==
  \E r \in Submits :
    /\ req[r].body.text = Str(MaxTextLen + 1, MaxTextLen, FALSE)
    /\ req[r].body.author = Str(1, 1, FALSE)
    /\ RejectedFor(r, 4)
    /\ req[r].pc = "done"
    /\ NothingStored(r)

\* a non-empty string with no surrounding whitespace, of at most max
\* characters, that holds no disallowed word
ValidField(x, max) ==
  /\ x.t = "string"
  /\ x.len >= 1
  /\ x.len = x.trimmed
  /\ x.len <= max
  /\ ~x.bad

\* C21: every live quote that a submission created has all its fields: a
\* positive id, a text and an author that are non-empty strings without
\* surrounding whitespace, within 1000 and 100 characters and free of
\* disallowed words, and views that are a non-negative integer
C21_LiveQuotesValid ==
  \A i \in LiveIds :
    i > seeded =>
      /\ DOMAIN quotes[i] = {"id", "text", "author", "views", "createdAt"}
      /\ quotes[i].id = i
      /\ ValidField(quotes[i].text, MaxTextLen)
      /\ ValidField(quotes[i].author, MaxAuthorLen)
      /\ quotes[i].views \in Nat
      /\ \E r \in Submits : req[r].ret.tag = "quote" /\ req[r].ret.val.id = i

\* a text of 1000 characters within surrounding whitespace was stored trimmed
C21_Witness ==
  \E r \in Submits :
    /\ req[r].body.text = Str(MaxTextLen, MaxTextLen - 1, FALSE)
    /\ req[r].body.author = Str(2, 1, FALSE)
    /\ Created(r)
    /\ req[r].resp.data.id \in LiveIds
    /\ quotes[req[r].resp.data.id].text = Str(MaxTextLen - 1, MaxTextLen - 1, FALSE)
    /\ quotes[req[r].resp.data.id].author = Str(1, 1, FALSE)

\* C22: a quote has views 0 when the store starts with it or creates it; a
\* step changes the views of a quote that stays live only by adding one, and
\* only when it is the store call of a random read returning that quote; every
\* other step leaves them as they are
C22_ViewsOnlyByReads ==
  /\ \A i \in LiveIds : quotes[i].views = 0
  /\ [][/\ \A i \in DOMAIN quotes' \ LiveIds : quotes'[i].views = 0
        /\ \A i \in LiveIds \cap DOMAIN quotes' :
             quotes'[i].views # quotes[i].views =>
               /\ quotes'[i].views = quotes[i].views + 1
               /\ \E r \in Reqs :
                    /\ req[r].kind = "GetQuote"
                    /\ ~Selected(req[r])
                    /\ Selected(req'[r])
                    /\ req'[r].ret.val.id = i
               /\ \A j \in (LiveIds \cap DOMAIN quotes') \ {i} :
                    quotes'[j].views = quotes[j].views]_vars

\* of two live quotes one was read and has views 1, the other, added by a
\* submission, still has views 0
C22_Witness ==
  /\ seeded = 1
  /\ LiveIds = {1, 2}
  /\ quotes[1].views = 1
  /\ quotes[2].views = 0
  /\ \E r \in Reads : Selected(req[r]) /\ req[r].ret.val.id = 1

\* the characters of p are digits and spell a number above zero
IsPositiveInteger(p) ==
  /\ p # <<>>
  /\ \A k \in 1..Len(p) : IsDigit(p[k])
  /\ DigitsValue(p, 0) > 0

\* C23 as stated: a remove-quote request whose :id is not a positive integer
\* is rejected with a validation error without db.deleteQuote being called
C23_MalformedIdRejected ==
  \A r \in Removals :
    ~IsPositiveInteger(req[r].route.id) =>
      /\ Answered(r)
      /\ req[r].resp.status = 400
      /\ req[r].resp.error = "Validation error"
      /\ "db.deleteQuote" \notin req[r].calls
      /\ req[r].ret.tag = "pending"

\* C24: the quotes-served counter is the number of random reads answered with
\* a quote; a read that got none or a store fault is answered 404 or 500 and
\* not counted, and no other request is counted; a counted read's views
\* increment has taken place in the store, so the counter never exceeds the
\* number of views increments made
C24_ServedCountsQuotes ==
  LET counted == {r \in Reads : Answered(r) /\ req[r].resp.status = 200}
      incremented == {r \in Reads : Selected(req[r])}
  IN /\ quotesServedCounter = Cardinality(counted)
     /\ counted \subseteq incremented
     /\ quotesServedCounter <= Cardinality(incremented)
     /\ \A r \in counted :
          /\ req[r].ret.val.views >= 1
          /\ req[r].ret.val.id \in LiveIds => quotes[req[r].ret.val.id].views >= req[r].ret.val.views
     /\ \A r \in Reads : Answered(r) =>
          /\ req[r].ret.tag = "null" => req[r].resp.status = 404
          /\ req[r].ret.tag = "error" => req[r].resp.status = 500

\* one read was served and counted; another, whose views increment is made,
\* waits for its continuation and is not counted yet
C24_Witness ==
  /\ seeded = 1
  /\ Served(1) /\ req[1].pc = "done"
  /\ req[2].kind = "GetQuote" /\ Selected(req[2]) /\ req[2].pc = "resume"
  /\ quotes[1].views = 2
  /\ quotesServedCounter = 1

\* no request is between its arrival and its response
Quiescent == \A r \in Reqs : req[r].pc \in {"idle", "sent", "done"}

\* a quote that a random read had returned was removed afterwards
ReadQuoteRemoved ==
  \E d \in Removals : Removed(d) /\ \E r \in Reads : Selected(req[r]) /\ req[r].ret.val.id = req[d].id

\* C25: in a process whose store started empty or with quotes never viewed,
\* whenever no request is in flight the totalViews that db.getStats returns, and
\* GET /stats reports as totalRandomQuoteRequests, is at most the quotes-served
\* counter: equal to it as long as no quote that was read has been removed, and
\* below it once one has
C25_ViewsAtMostServed ==
  Quiescent =>
    /\ Stats(quotes).totalViews <= quotesServedCounter
    /\ IF ReadQuoteRemoved
       THEN Stats(quotes).totalViews < quotesServedCounter
       ELSE Stats(quotes).totalViews = quotesServedCounter
    /\ quotesServedCounter = Cardinality({r \in Reads : Served(r)})

\* from an empty store: a quote was added and read once, nothing is in flight,
\* and totalViews and the quotes-served counter are both 1
C25_Witness ==
  /\ seeded = 0
  /\ Quiescent
  /\ \E a \in Submits : Created(a)
  /\ \E r \in Reads : Served(r) /\ req[r].pc = "done"
  /\ ~ReadQuoteRemoved
  /\ Stats(quotes).totalViews = 1
  /\ quotesServedCounter = 1

ReportedRemoval(r) == req[r].kind = "DeleteQuote" /\ Answered(r) /\ req[r].resp.status = 200

\* C26: whenever no request is in flight, the totalQuotes that db.getStats
\* returns, and GET /stats reports, is the number of quotes the store started
\* with (none, from an empty store) plus the quotes-added counter minus the
\* number of remove-quote requests answered as having removed a quote
C26_QuotesLedger ==
  Quiescent =>
    /\ Stats(quotes).totalQuotes =
         seeded + quotesAddedCounter - Cardinality({r \in Removals : ReportedRemoval(r)})
    /\ \A r \in Removals : ReportedRemoval(r) <=> Removed(r)
    /\ seeded = 0 => Cardinality({r \in Removals : ReportedRemoval(r)}) <= quotesAddedCounter

\* from an empty store: a quote was added and removed again, nothing is in
\* flight, the counter is 1 and totalQuotes 0
C26_Witness ==
  /\ seeded = 0
  /\ Quiescent
  /\ \E a \in Submits : Created(a) /\ req[a].pc = "done"
  /\ \E d \in Removals : ReportedRemoval(d) /\ req[d].pc = "done"
  /\ quotesAddedCounter = 1
  /\ Stats(quotes).totalQuotes = 0

Responded(r) == req[r].resp # NoResp

\* C27: a request has a response exactly when its handler has sent one; once
\* sent, the response is not replaced by another and the handler makes no
\* further call; and, every store call returning or failing, from some moment
\* on every request that has arrived has its response
C27_ExactlyOneResponse ==
  /\ [](\A r \in Reqs : Responded(r) <=> Answered(r))
  /\ [](\A r \in Reqs : Responded(r) => req[r].resp.status \in {200, 201, 400, 404, 500})
  /\ [][\A r \in Reqs : Responded(r) =>
          /\ req'[r].resp = req[r].resp
          /\ req'[r].ret = req[r].ret
          /\ req'[r].calls = req[r].calls]_vars
  /\ <>[](\A r \in Reqs : req[r].pc = "idle" \/ Responded(r))

\* a submission rejected by moderation kept its one response, the rejection,
\* and made no store call; a random read whose store call failed got its
\* one response, the store fault
C27_Witness ==
  /\ Moderated(1) /\ req[1].pc = "done" /\ req[1].ret.tag = "pending"
  /\ req[2].kind = "GetQuote" /\ req[2].ret.tag = "error"
  /\ req[2].pc = "done" /\ req[2].resp.status = 500

====
